---------------------------- MODULE Spec2Model ----------------------------
(***************************************************************************)
(* Model of the money-system engine: the double-entry ledger               *)
(* (money_system/ledger.py), the transaction catalogue                     *)
(* (money_system/flows.py), the configuration (money_system/config.py)     *)
(* and the stepper (money_system/model.py).                                *)
(*                                                                         *)
(* Amounts are integers counted in units of 1e-6 currency units, so the    *)
(* tolerance 1e-6 of the code is 1 unit and a balance of 90.0 is           *)
(* 90000000.  Rates and override values are drawn from small integers: on  *)
(* integers of this size the float arithmetic of the code (+, -, *, abs,   *)
(* min, max, comparison) is exact, so every computation below is the       *)
(* computation the code performs on these inputs.                          *)
(***************************************************************************)
EXTENDS Integers, Sequences, FiniteSets, TLC

VARIABLES
    config,            \* MoneySystemModel.config
    sectors,           \* Ledger.sectors: sector -> account -> Account
    transactions,      \* Ledger.transactions, the log
    stock_history,     \* MoneySystemModel._stock_history
    flow_history,      \* MoneySystemModel._flow_history
    metric_history,    \* MoneySystemModel._metric_history
    pc,                \* position of the caller: run loop, inside step, ended
    t,                 \* loop variable of run(): the next step index
    balances,          \* step(): the pre-step snapshot
    flows,             \* step(): the flows dict
    txs,               \* step(): selected transactions not yet applied
    equity_adjustments,\* step(): value returned by Ledger.recompute_equity
    stocks,            \* step(): post-step snapshot
    metrics,           \* step(): _compute_metrics result
    err,               \* the exception that ended the last call, if any
    entry,             \* ledger, log and history lengths when the call began
    call,              \* a host's last Ledger call: what, its argument, its result
    ncalls             \* number of Ledger calls a host has made

vars == <<config, sectors, transactions, stock_history, flow_history,
          metric_history, pc, t, balances, flows, txs, equity_adjustments,
          stocks, metrics, err, entry, call, ncalls>>

---------------------------------------------------------------------------
(* Bounds of the model *)

\* largest number of periods a configuration asks for
MaxSteps == 2

\* largest number of Ledger.apply / recompute_equity calls of a host
MaxCalls == 2

---------------------------------------------------------------------------
(* Values *)

\* default tolerance of Ledger.apply and assert_balanced, 1e-6, in units
tol == 1

Abs(x) == IF x < 0 THEN 0 - x ELSE x

Min(a, b) == IF a <= b THEN a ELSE b

Max(a, b) == IF a >= b THEN a ELSE b

EmptyDict == [k \in {} |-> 0]

\* Python None
None == [none |-> TRUE]

\* exceptions, by class and raising site
NoError == [class |-> "none", raised |-> "none"]

UnknownAccountError == [class |-> "KeyError", raised |-> "lookup"]

UnbalancedTransactionError == [class |-> "ValueError", raised |-> "Ledger.apply"]

BalanceSheetInvariantViolation ==
    [class |-> "ValueError", raised |-> "SectorLedger.assert_balanced"]

NoneHasNoItems == [class |-> "AttributeError", raised |-> "step"]

RECURSIVE SumOver(_, _)
SumOver(f, S) ==
    IF S = {} THEN 0
    ELSE LET x == CHOOSE y \in S : TRUE
         IN  f[x] + SumOver(f, S \ {x})

---------------------------------------------------------------------------
(* ledger.py *)

CATEGORY_SIGN(category) ==
    CASE category = "asset" -> 1
      [] category = "liability" -> -1
      [] category = "equity" -> -1

Account(category, balance) == [category |-> category, balance |-> balance]

Posting(sector, account, amount) ==
    [sector |-> sector, account |-> account, amount |-> amount]

Transaction(name, postings) == [name |-> name, postings |-> postings]

\* sum of the balances of one sector's accounts of a category
category_total(accounts, category) ==
    SumOver([a \in DOMAIN accounts |-> accounts[a].balance],
            {a \in DOMAIN accounts : accounts[a].category = category})

assets_total(accounts) == category_total(accounts, "asset")

liabilities_total(accounts) == category_total(accounts, "liability")

equity_total(accounts) == category_total(accounts, "equity")

net_position(accounts) == assets_total(accounts) - liabilities_total(accounts)

\* an apply that adds the sign-adjusted amount
Account_apply_signed(account, delta) ==
    [account EXCEPT !.balance = @ + delta * CATEGORY_SIGN(account.category)]

\* Account.apply
Account_apply(account, delta) ==
    [account EXCEPT !.balance = account.balance + delta]

\* SectorLedger.apply on sector self.sectors[sector]; the sector lookup of
\* Ledger.apply (self.sectors[p.sector]) raises KeyError as well
SectorLedger_apply(secs, sector, account_name, delta) ==
    IF sector \notin DOMAIN secs
    THEN [sectors |-> secs, err |-> UnknownAccountError]
    ELSE IF account_name \notin DOMAIN secs[sector]
    THEN [sectors |-> secs, err |-> UnknownAccountError]
    ELSE [sectors |-> [secs EXCEPT ![sector][account_name] =
                          Account_apply(secs[sector][account_name], delta)],
          err |-> NoError]

\* a total that passes over postings it cannot resolve instead of raising
RECURSIVE total_loop_skipping(_, _, _)
total_loop_skipping(postings, secs, total) ==
    IF postings = <<>> THEN [err |-> NoError, value |-> total]
    ELSE LET p == Head(postings)
         IN  IF p.sector \notin DOMAIN secs
             THEN total_loop_skipping(Tail(postings), secs, total)
             ELSE IF p.account \notin DOMAIN secs[p.sector]
             THEN total_loop_skipping(Tail(postings), secs, total)
             ELSE total_loop_skipping(Tail(postings), secs,
                     total + p.amount
                             * CATEGORY_SIGN(secs[p.sector][p.account].category))

\* the loop of Transaction.total: the first posting whose sector or account
\* is missing raises KeyError
RECURSIVE total_loop(_, _, _)
total_loop(postings, secs, total) ==
    IF postings = <<>> THEN [err |-> NoError, value |-> total]
    ELSE LET p == Head(postings)
         IN  IF p.sector \notin DOMAIN secs
             THEN [err |-> UnknownAccountError, value |-> total]
             ELSE IF p.account \notin DOMAIN secs[p.sector]
             THEN [err |-> UnknownAccountError, value |-> total]
             ELSE total_loop(Tail(postings), secs,
                     total + p.amount
                             * CATEGORY_SIGN(secs[p.sector][p.account].category))

Transaction_total(tx, secs) == total_loop(tx.postings, secs, 0)

\* the posting loop of Ledger.apply: postings applied in order, an
\* exception leaves the earlier ones applied
RECURSIVE apply_postings(_, _)
apply_postings(postings, secs) ==
    IF postings = <<>> THEN [sectors |-> secs, err |-> NoError]
    ELSE LET p == Head(postings)
             r == SectorLedger_apply(secs, p.sector, p.account, p.amount)
         IN  IF r.err # NoError THEN r
             ELSE apply_postings(Tail(postings), r.sectors)

\* an apply that posts first and checks the balance afterwards
Ledger_apply_then_check(L, tx) ==
    LET r == apply_postings(tx.postings, L.sectors)
        imbalance == Transaction_total(tx, L.sectors)
    IN  IF r.err # NoError
        THEN [sectors |-> r.sectors, transactions |-> L.transactions,
              err |-> r.err]
        ELSE IF Abs(imbalance.value) > tol
        THEN [sectors |-> r.sectors, transactions |-> L.transactions,
              err |-> UnbalancedTransactionError]
        ELSE [sectors |-> r.sectors,
              transactions |-> Append(L.transactions, tx),
              err |-> NoError]

\* Ledger.apply on the ledger L = [sectors, transactions]
Ledger_apply(L, tx) ==
    LET imbalance == Transaction_total(tx, L.sectors)
    IN  IF imbalance.err # NoError
        THEN [sectors |-> L.sectors, transactions |-> L.transactions,
              err |-> imbalance.err]
        ELSE IF Abs(imbalance.value) > tol
        THEN [sectors |-> L.sectors, transactions |-> L.transactions,
              err |-> UnbalancedTransactionError]
        ELSE LET r == apply_postings(tx.postings, L.sectors)
             IN  IF r.err # NoError
                 THEN [sectors |-> r.sectors, transactions |-> L.transactions,
                       err |-> r.err]
                 ELSE [sectors |-> r.sectors,
                       transactions |-> Append(L.transactions, tx),
                       err |-> NoError]

\* the whole residual to one equity account, 0 to the others
SectorLedger_recompute_equity_to_one(accounts) ==
    LET equity_accounts == {a \in DOMAIN accounts : accounts[a].category = "equity"}
    IN  IF equity_accounts = {} THEN accounts
        ELSE LET residual == assets_total(accounts) - liabilities_total(accounts)
                 first == CHOOSE a \in equity_accounts : TRUE
             IN  [a \in DOMAIN accounts |->
                    IF a \in equity_accounts
                    THEN [accounts[a] EXCEPT
                            !.balance = IF a = first THEN residual ELSE 0]
                    ELSE accounts[a]]

\* SectorLedger.recompute_equity; residual / n is exact: every sector of the
\* default chart has one equity account, and the balances of the charts with
\* two keep the residual even
SectorLedger_recompute_equity(accounts) ==
    LET equity_accounts == {a \in DOMAIN accounts : accounts[a].category = "equity"}
    IN  IF equity_accounts = {} THEN accounts
        ELSE LET residual == assets_total(accounts) - liabilities_total(accounts)
                 split == residual \div Cardinality(equity_accounts)
             IN  [a \in DOMAIN accounts |->
                    IF a \in equity_accounts
                    THEN [accounts[a] EXCEPT !.balance = split]
                    ELSE accounts[a]]

\* a check that leaves the equity out
assert_balanced_without_equity(accounts) ==
    ~ (Abs(assets_total(accounts) - liabilities_total(accounts)) > tol)

\* SectorLedger.assert_balanced: TRUE when it returns, FALSE when it raises
assert_balanced(accounts) ==
    ~ (Abs(assets_total(accounts) - liabilities_total(accounts)
           - equity_total(accounts)) > tol)

\* iteration order of the sectors dict built by default_chart
SectorOrder == <<"Private", "Banks", "Government", "CentralBank">>

\* iteration order of a sectors dict a caller of Ledger(sectors) has built
\* with the keys "Firm", "Fund", "Shop"
HostChartOrder == <<"Firm", "Fund", "Shop">>

\* "for sector in self.sectors.values()": the insertion order of the dict
sectors_order(secs) ==
    IF DOMAIN secs = {"Firm", "Fund", "Shop"} THEN HostChartOrder
    ELSE SectorOrder

\* the loop of Ledger.recompute_equity over the sectors from index i on
RECURSIVE recompute_loop(_, _)
recompute_loop(secs, i) ==
    IF i > Len(sectors_order(secs)) THEN [sectors |-> secs, err |-> NoError]
    ELSE LET s == sectors_order(secs)[i]
             done == [secs EXCEPT ![s] = SectorLedger_recompute_equity(secs[s])]
         IN  IF ~ assert_balanced(done[s])
             THEN [sectors |-> done, err |-> BalanceSheetInvariantViolation]
             ELSE recompute_loop(done, i + 1)

\* a loop that leaves the first sector of the dict out
Ledger_recompute_equity_skips_first(secs) ==
    LET r == recompute_loop(secs, 2)
    IN  [sectors |-> r.sectors, err |-> r.err, returned |-> None]

\* Ledger.recompute_equity: the function has no return statement, so the
\* caller receives None
Ledger_recompute_equity(secs) ==
    LET r == recompute_loop(secs, 1)
    IN  [sectors |-> r.sectors, err |-> r.err, returned |-> None]

\* the key f"{sector_name}:{account.name}" of Ledger.snapshot
snapshot_key(sector, account) == sector \o ":" \o account

\* keys of Ledger.snapshot, each kept as the pair it is formatted from
SnapshotKeys(secs) ==
    UNION {{<<s, a>> : a \in DOMAIN secs[s]} : s \in DOMAIN secs}

\* a snapshot without the accounts whose balance is 0
Ledger_snapshot_nonzero(secs) ==
    [k \in {q \in SnapshotKeys(secs) : secs[q[1]][q[2]].balance # 0} |->
        secs[k[1]][k[2]].balance]

\* Ledger.snapshot
Ledger_snapshot(secs) ==
    [k \in SnapshotKeys(secs) |-> secs[k[1]][k[2]].balance]

\* the chart of accounts of default_chart
ChartOfAccounts ==
    [Private |-> [Deposits |-> "asset", Loans |-> "liability",
                  GovBonds |-> "asset", Currency |-> "asset",
                  NetWorth |-> "equity"],
     Banks |-> [Loans |-> "asset", Reserves |-> "asset",
                Deposits |-> "liability", BankEquity |-> "equity"],
     Government |-> [TGA |-> "asset", GovBonds |-> "liability",
                     GovEquity |-> "equity"],
     CentralBank |-> [Reserves |-> "liability", Currency |-> "liability",
                      TGA |-> "liability", GovBonds |-> "asset",
                      CBEq |-> "equity"]]

\* initial.get(name, {}).get(acc_name, 0.0)
initial_get(initial, name, acc_name) ==
    IF name \notin DOMAIN initial THEN 0
    ELSE IF acc_name \notin DOMAIN initial[name] THEN 0
    ELSE initial[name][acc_name]

default_chart(initial) ==
    [name \in DOMAIN ChartOfAccounts |->
       [acc_name \in DOMAIN ChartOfAccounts[name] |->
          Account(ChartOfAccounts[name][acc_name],
                  initial_get(initial, name, acc_name))]]

\* build_default_ledger: the chart, then recompute_equity; an exception
\* (err) leaves no ledger and no model constructed
build_default_ledger(initial) ==
    LET r == Ledger_recompute_equity(default_chart(initial))
    IN  [sectors |-> r.sectors, err |-> r.err]

---------------------------------------------------------------------------
(* flows.py: the transaction catalogue *)

tx_government_spending(amount) ==
    IF amount = 0 THEN Transaction("gov_spending_zero", <<>>)
    ELSE Transaction("government_spending",
            <<Posting("Private", "Deposits", amount),
              Posting("Banks", "Deposits", amount),
              Posting("Banks", "Reserves", amount),
              Posting("CentralBank", "Reserves", amount),
              Posting("CentralBank", "TGA", 0 - amount),
              Posting("Government", "TGA", 0 - amount)>>)

\* taxes that the central bank takes out of currency
tx_taxes_from_currency(amount) ==
    IF amount = 0 THEN Transaction("taxes_zero", <<>>)
    ELSE Transaction("taxes",
            <<Posting("Private", "Deposits", 0 - amount),
              Posting("Banks", "Deposits", 0 - amount),
              Posting("Banks", "Reserves", 0 - amount),
              Posting("CentralBank", "Currency", 0 - amount),
              Posting("CentralBank", "TGA", amount),
              Posting("Government", "TGA", amount)>>)

tx_taxes(amount) ==
    IF amount = 0 THEN Transaction("taxes_zero", <<>>)
    ELSE Transaction("taxes",
            <<Posting("Private", "Deposits", 0 - amount),
              Posting("Banks", "Deposits", 0 - amount),
              Posting("Banks", "Reserves", 0 - amount),
              Posting("CentralBank", "Reserves", 0 - amount),
              Posting("CentralBank", "TGA", amount),
              Posting("Government", "TGA", amount)>>)

tx_loan_creation(amount) ==
    IF amount = 0 THEN Transaction("loan_creation_zero", <<>>)
    ELSE Transaction("loan_creation",
            <<Posting("Banks", "Loans", amount),
              Posting("Private", "Loans", amount),
              Posting("Banks", "Deposits", amount),
              Posting("Private", "Deposits", amount)>>)

tx_loan_repayment(amount) ==
    IF amount = 0 THEN Transaction("loan_repayment_zero", <<>>)
    ELSE Transaction("loan_repayment",
            <<Posting("Private", "Deposits", 0 - amount),
              Posting("Banks", "Deposits", 0 - amount),
              Posting("Banks", "Loans", 0 - amount),
              Posting("Private", "Loans", 0 - amount)>>)

tx_private_loan_creation(amount) ==
    IF amount = 0 THEN Transaction("private_loan_creation_zero", <<>>)
    ELSE Transaction("private_loan_creation",
            <<Posting("Private", "PrivateLoansAsset", amount),
              Posting("Private", "PrivateLoansLiability", amount)>>)

tx_private_loan_repayment(amount) ==
    IF amount = 0 THEN Transaction("private_loan_repayment_zero", <<>>)
    ELSE Transaction("private_loan_repayment",
            <<Posting("Private", "PrivateLoansAsset", 0 - amount),
              Posting("Private", "PrivateLoansLiability", 0 - amount)>>)

\* loan interest credited to the deposits
tx_interest_on_loans_credited(amount) ==
    IF amount = 0 THEN Transaction("interest_loans_zero", <<>>)
    ELSE Transaction("interest_on_loans",
            <<Posting("Private", "Deposits", amount),
              Posting("Banks", "Deposits", amount)>>)

tx_interest_on_loans(amount) ==
    IF amount = 0 THEN Transaction("interest_loans_zero", <<>>)
    ELSE Transaction("interest_on_loans",
            <<Posting("Private", "Deposits", 0 - amount),
              Posting("Banks", "Deposits", 0 - amount)>>)

\* deposit interest booked against the depositors' net worth
tx_interest_on_deposits_to_net_worth(amount) ==
    IF amount = 0 THEN Transaction("interest_deposits_zero", <<>>)
    ELSE Transaction("interest_on_deposits",
            <<Posting("Private", "Deposits", amount),
              Posting("Private", "NetWorth", amount)>>)

tx_interest_on_deposits(amount) ==
    IF amount = 0 THEN Transaction("interest_deposits_zero", <<>>)
    ELSE Transaction("interest_on_deposits",
            <<Posting("Private", "Deposits", amount),
              Posting("Banks", "Deposits", amount)>>)

tx_interest_on_reserves(amount) ==
    IF amount = 0 THEN Transaction("interest_reserves_zero", <<>>)
    ELSE Transaction("interest_on_reserves",
            <<Posting("Banks", "Reserves", amount),
              Posting("CentralBank", "Reserves", amount)>>)

tx_interest_on_bonds(amount) ==
    IF amount = 0 THEN Transaction("interest_bonds_zero", <<>>)
    ELSE Transaction("interest_on_bonds",
            <<Posting("Private", "Deposits", amount),
              Posting("Banks", "Deposits", amount),
              Posting("Banks", "Reserves", amount),
              Posting("CentralBank", "Reserves", amount),
              Posting("CentralBank", "TGA", 0 - amount),
              Posting("Government", "TGA", 0 - amount)>>)

tx_bond_issue(amount) ==
    IF amount = 0 THEN Transaction("bond_issue_zero", <<>>)
    ELSE Transaction("bond_issue",
            <<Posting("Private", "Deposits", 0 - amount),
              Posting("Banks", "Deposits", 0 - amount),
              Posting("Banks", "Reserves", 0 - amount),
              Posting("CentralBank", "Reserves", 0 - amount),
              Posting("CentralBank", "TGA", amount),
              Posting("Government", "TGA", amount),
              Posting("Government", "GovBonds", amount),
              Posting("Private", "GovBonds", amount)>>)

\* a selection that keeps every transaction
select_transactions_all(list) ==
    list

\* select_transactions: [tx for tx in txs if tx.postings]
RECURSIVE select_transactions(_)
select_transactions(list) ==
    IF list = <<>> THEN <<>>
    ELSE IF Head(list).postings # <<>>
    THEN <<Head(list)>> \o select_transactions(Tail(list))
    ELSE select_transactions(Tail(list))

---------------------------------------------------------------------------
(* config.py *)

\* an override hook: None, or a function; the functions of the model are
\* the constant ones, float(fn(...)) = value
NoFn == [isNone |-> TRUE, value |-> 0]

Fn(v) == [isNone |-> FALSE, value |-> v]

\* the balances resolve_initial returns for an empty ModelConfig.initial
DefaultInitial ==
    [Private |-> [Deposits |-> 90000000, Loans |-> 100000000,
                  PrivateLoansAsset |-> 0, PrivateLoansLiability |-> 0,
                  GovBonds |-> 0, BankDebt |-> 0, Currency |-> 0,
                  NetWorth |-> 0],
     Banks |-> [Loans |-> 100000000, Reserves |-> 0, Deposits |-> 90000000,
                BankDebt |-> 0, BankEquity |-> 0],
     Government |-> [TGA |-> 0, GovBonds |-> 0, GovEquity |-> 0],
     CentralBank |-> [Reserves |-> 0, Currency |-> 0, TGA |-> 0,
                      GovBonds |-> 0, CBEq |-> 0]]

\* ModelConfig.resolve_initial: "if self.initial" is true of a non-empty dict
resolve_initial(cfg) ==
    IF DOMAIN cfg.initial # {} THEN cfg.initial ELSE DefaultInitial

---------------------------------------------------------------------------
(* model.py *)

\* _get_balance: snapshot.get(key, 0.0)
get_balance(snapshot, sector, account) ==
    IF <<sector, account>> \in DOMAIN snapshot
    THEN snapshot[<<sector, account>>]
    ELSE 0

\* metrics whose public position leaves the central bank out
compute_metrics_without_central_bank(snapshot, secs) ==
    LET deposits == get_balance(snapshot, "Private", "Deposits")
        currency == get_balance(snapshot, "Private", "Currency")
        loans == get_balance(snapshot, "Private", "Loans")
        bonds == get_balance(snapshot, "Private", "GovBonds")
        reserves == get_balance(snapshot, "Banks", "Reserves")
        private_nfa == net_position(secs["Private"])
        banks_nfa == net_position(secs["Banks"])
        public_nfp == net_position(secs["Government"])
        non_gov_nfa == private_nfa + banks_nfa
    IN  [Money_M1 |-> deposits + currency,
         Private_Debt |-> loans,
         Private_Bonds |-> bonds,
         Bank_Reserves |-> reserves,
         Private_NFA |-> private_nfa,
         Banks_NFA |-> banks_nfa,
         NonGov_NFA |-> non_gov_nfa,
         Public_NFP |-> public_nfp,
         Sector_Balance_Check |-> non_gov_nfa + public_nfp]

\* _compute_metrics
compute_metrics(snapshot, secs) ==
    LET deposits == get_balance(snapshot, "Private", "Deposits")
        currency == get_balance(snapshot, "Private", "Currency")
        loans == get_balance(snapshot, "Private", "Loans")
        bonds == get_balance(snapshot, "Private", "GovBonds")
        reserves == get_balance(snapshot, "Banks", "Reserves")
        private_nfa == net_position(secs["Private"])
        banks_nfa == net_position(secs["Banks"])
        public_nfp == net_position(secs["Government"])
                      + net_position(secs["CentralBank"])
        non_gov_nfa == private_nfa + banks_nfa
    IN  [Money_M1 |-> deposits + currency,
         Private_Debt |-> loans,
         Private_Bonds |-> bonds,
         Bank_Reserves |-> reserves,
         Private_NFA |-> private_nfa,
         Banks_NFA |-> banks_nfa,
         NonGov_NFA |-> non_gov_nfa,
         Public_NFP |-> public_nfp,
         Sector_Balance_Check |-> non_gov_nfa + public_nfp]

\* MoneySystemModel._resolve_gov_spending
resolve_gov_spending(cfg, step) ==
    IF ~ cfg.gov_spending_fn.isNone THEN cfg.gov_spending_fn.value
    ELSE cfg.gov_spending

\* rate * amount, for the rate the configuration holds in a field: the
\* rate is the fraction cfg[field] / cfg.per[field]; a product that is no
\* whole number of units is rounded down to the unit 1e-6, and the float
\* the program computes lies within one unit of it
rate_times(cfg, field, amount) ==
    (cfg[field] * amount) \div cfg.per[field]

\* a default tax rule without the floor at 0
resolve_tax_unclamped(cfg, step, bal, fl) ==
    IF ~ cfg.tax_fn.isNone THEN cfg.tax_fn.value
    ELSE LET tax_base == fl["gov_spending"] + fl["interest_on_deposits"]
                         + fl["interest_on_bonds"] - fl["interest_on_loans"]
         IN  rate_times(cfg, "tax_rate", tax_base)

\* MoneySystemModel._resolve_tax
resolve_tax(cfg, step, bal, fl) ==
    IF ~ cfg.tax_fn.isNone THEN cfg.tax_fn.value
    ELSE LET tax_base == fl["gov_spending"] + fl["interest_on_deposits"]
                         + fl["interest_on_bonds"] - fl["interest_on_loans"]
         IN  Max(0, rate_times(cfg, "tax_rate", tax_base))

\* MoneySystemModel._resolve_loan_change
resolve_loan_change(cfg, step, bal) ==
    IF ~ cfg.loan_growth_fn.isNone THEN cfg.loan_growth_fn.value
    ELSE rate_times(cfg, "loan_growth", get_balance(bal, "Private", "Loans"))

\* MoneySystemModel._resolve_private_loan_change
resolve_private_loan_change(cfg, step, bal) ==
    IF ~ cfg.private_loan_growth_fn.isNone THEN cfg.private_loan_growth_fn.value
    ELSE rate_times(cfg, "private_loan_growth",
                    get_balance(bal, "Private", "PrivateLoansAsset"))

\* loan interest charged on the loans after the period's loan adjustment
step_flows_on_new_loans(cfg, step, bal) ==
    LET loans == get_balance(bal, "Private", "Loans")
                 + resolve_loan_change(cfg, step, bal)
        deposits == get_balance(bal, "Private", "Deposits")
        bonds == get_balance(bal, "Private", "GovBonds")
        reserves == get_balance(bal, "Banks", "Reserves")
        first == ("gov_spending" :> resolve_gov_spending(cfg, step))
                 @@ ("loan_change" :> resolve_loan_change(cfg, step, bal))
                 @@ ("interest_on_loans" :> rate_times(cfg, "loan_rate", loans))
                 @@ ("interest_on_deposits" :>
                       rate_times(cfg, "deposit_rate", deposits))
                 @@ ("interest_on_reserves" :>
                       rate_times(cfg, "reserve_rate", reserves))
                 @@ ("interest_on_bonds" :> rate_times(cfg, "bond_rate", bonds))
        second == first @@ ("private_loan_change" :>
                              resolve_private_loan_change(cfg, step, bal))
    IN  second @@ ("taxes" :> resolve_tax(cfg, step, bal, second))

\* step(): the flows dict as it stands after the taxes entry is set
step_flows(cfg, step, bal) ==
    LET loans == get_balance(bal, "Private", "Loans")
        deposits == get_balance(bal, "Private", "Deposits")
        bonds == get_balance(bal, "Private", "GovBonds")
        reserves == get_balance(bal, "Banks", "Reserves")
        first == ("gov_spending" :> resolve_gov_spending(cfg, step))
                 @@ ("loan_change" :> resolve_loan_change(cfg, step, bal))
                 @@ ("interest_on_loans" :> rate_times(cfg, "loan_rate", loans))
                 @@ ("interest_on_deposits" :>
                       rate_times(cfg, "deposit_rate", deposits))
                 @@ ("interest_on_reserves" :>
                       rate_times(cfg, "reserve_rate", reserves))
                 @@ ("interest_on_bonds" :> rate_times(cfg, "bond_rate", bonds))
        second == first @@ ("private_loan_change" :>
                              resolve_private_loan_change(cfg, step, bal))
    IN  second @@ ("taxes" :> resolve_tax(cfg, step, bal, second))

\* a list with the taxes ahead of the spending
step_txs_taxes_first(fl, bal) ==
    LET deposits == get_balance(bal, "Private", "Deposits")
        private_loans == get_balance(bal, "Private", "PrivateLoansAsset")
        loan_tx ==
            IF fl["loan_change"] >= 0
            THEN tx_loan_creation(fl["loan_change"])
            ELSE tx_loan_repayment(Min(0 - fl["loan_change"], deposits))
        private_tx ==
            IF fl["private_loan_change"] >= 0
            THEN tx_private_loan_creation(fl["private_loan_change"])
            ELSE tx_private_loan_repayment(
                     Min(0 - fl["private_loan_change"], private_loans))
    IN  <<loan_tx, private_tx,
          tx_interest_on_loans(fl["interest_on_loans"]),
          tx_interest_on_deposits(fl["interest_on_deposits"]),
          tx_interest_on_reserves(fl["interest_on_reserves"]),
          tx_interest_on_bonds(fl["interest_on_bonds"]),
          tx_taxes(fl["taxes"]),
          tx_government_spending(fl["gov_spending"])>>

\* step(): the list txs before selection
step_txs(fl, bal) ==
    LET deposits == get_balance(bal, "Private", "Deposits")
        private_loans == get_balance(bal, "Private", "PrivateLoansAsset")
        loan_tx ==
            IF fl["loan_change"] >= 0
            THEN tx_loan_creation(fl["loan_change"])
            ELSE tx_loan_repayment(Min(0 - fl["loan_change"], deposits))
        private_tx ==
            IF fl["private_loan_change"] >= 0
            THEN tx_private_loan_creation(fl["private_loan_change"])
            ELSE tx_private_loan_repayment(
                     Min(0 - fl["private_loan_change"], private_loans))
    IN  <<loan_tx, private_tx,
          tx_interest_on_loans(fl["interest_on_loans"]),
          tx_interest_on_deposits(fl["interest_on_deposits"]),
          tx_interest_on_reserves(fl["interest_on_reserves"]),
          tx_interest_on_bonds(fl["interest_on_bonds"]),
          tx_government_spending(fl["gov_spending"]),
          tx_taxes(fl["taxes"])>>

\* a gap read from the pre-step snapshot
tga_gap_stale(cfg, secs) ==
    cfg.tga_target - get_balance(balances, "Government", "TGA")

\* step(): tga_gap, read from a fresh snapshot after the transactions
tga_gap(cfg, secs) ==
    cfg.tga_target - get_balance(Ledger_snapshot(secs), "Government", "TGA")

\* step(): the key f"equity_adjustment_{sector}"
equity_adjustment_key(sector) ==
    CASE sector = "Private" -> "equity_adjustment_Private"
      [] sector = "Banks" -> "equity_adjustment_Banks"
      [] sector = "Government" -> "equity_adjustment_Government"
      [] sector = "CentralBank" -> "equity_adjustment_CentralBank"

\* step(): the loop "for sector, delta in equity_adjustments.items()"
with_equity_adjustments(fl, adj) ==
    [k \in DOMAIN fl \cup {equity_adjustment_key(s) : s \in DOMAIN adj} |->
        IF \E s \in DOMAIN adj : k = equity_adjustment_key(s)
        THEN adj[CHOOSE s \in DOMAIN adj : k = equity_adjustment_key(s)]
        ELSE fl[k]]

---------------------------------------------------------------------------
(* Configurations *)

\* initial balances a configuration may supply: claims and their
\* counterparts agree, every sector's books can be closed
ConsistentInitial ==
    [Private |-> [Deposits |-> 5, Loans |-> 3, GovBonds |-> 1],
     Banks |-> [Deposits |-> 5, Loans |-> 3, Reserves |-> 2],
     Government |-> [TGA |-> 1, GovBonds |-> 1],
     CentralBank |-> [Reserves |-> 2, TGA |-> 1]]

\* a deposit nobody owes
LopsidedInitial == [Private |-> [Deposits |-> 5]]

\* equity balances preset, and a key the chart does not have
PresetInitial ==
    [Private |-> [Deposits |-> 4, NetWorth |-> 7, PrivateLoansAsset |-> 4],
     Banks |-> [Deposits |-> 4, Reserves |-> 4, BankEquity |-> -3],
     CentralBank |-> [Reserves |-> 4]]

\* an overdrawn deposit account, claims and counterparts agreeing
OverdrawnInitial ==
    [Private |-> [Deposits |-> -4, Loans |-> 3],
     Banks |-> [Deposits |-> -4, Loans |-> 3]]

Initials ==
    {EmptyDict, ConsistentInitial, LopsidedInitial, PresetInitial,
     OverdrawnInitial}

\* gov_spending and gov_spending_fn
SpendingPolicies ==
    {<<0, NoFn>>, <<3, NoFn>>, <<3, Fn(2)>>}

\* tax_rate and tax_fn
TaxPolicies ==
    {<<0, NoFn>>, <<1, NoFn>>, <<-1, NoFn>>, <<1, Fn(-1)>>}

\* loan_growth and loan_growth_fn
LoanPolicies ==
    {<<0, NoFn>>, <<1, NoFn>>, <<-1, NoFn>>, <<0, Fn(2)>>}

\* private_loan_growth and private_loan_growth_fn
PrivateLoanPolicies ==
    {<<0, NoFn>>, <<1, NoFn>>, <<0, Fn(2)>>, <<0, Fn(-2)>>}

\* deposit_rate, loan_rate, reserve_rate, bond_rate
RatePolicies ==
    {<<0, 0, 0, 0>>, <<1, 1, 1, 1>>, <<0, 1, 0, 0>>}

TgaTargets == {0, 1, 4}

\* denominators of rates that are whole numbers
WholeRates ==
    [tax_rate |-> 1, loan_growth |-> 1, private_loan_growth |-> 1,
     deposit_rate |-> 1, loan_rate |-> 1, reserve_rate |-> 1, bond_rate |-> 1]

ModelConfig(steps, g, tax, loan, ploan, rates, target, initial) ==
    [steps |-> steps,
     gov_spending |-> g[1], gov_spending_fn |-> g[2],
     tax_rate |-> tax[1], tax_fn |-> tax[2],
     loan_growth |-> loan[1], loan_growth_fn |-> loan[2],
     private_loan_growth |-> ploan[1], private_loan_growth_fn |-> ploan[2],
     deposit_rate |-> rates[1], loan_rate |-> rates[2],
     reserve_rate |-> rates[3], bond_rate |-> rates[4],
     tga_target |-> target,
     initial |-> initial,
     per |-> WholeRates]

\* ModelConfig(steps=steps): gov_spending 100.0, tax_rate 0.2, loan_growth
\* 0.01, private_loan_growth 0.0, deposit_rate 0.01/12, loan_rate 0.04/12,
\* reserve_rate 0.02/12, bond_rate 0.03/12, tga_target 0.0, no override,
\* no initial balances
DefaultModelConfig(steps) ==
    [steps |-> steps,
     gov_spending |-> 100000000, gov_spending_fn |-> NoFn,
     tax_rate |-> 1, tax_fn |-> NoFn,
     loan_growth |-> 1, loan_growth_fn |-> NoFn,
     private_loan_growth |-> 0, private_loan_growth_fn |-> NoFn,
     deposit_rate |-> 1, loan_rate |-> 1,
     reserve_rate |-> 1, bond_rate |-> 1,
     tga_target |-> 0,
     initial |-> EmptyDict,
     per |-> [tax_rate |-> 5, loan_growth |-> 100, private_loan_growth |-> 1,
              deposit_rate |-> 1200, loan_rate |-> 300, reserve_rate |-> 600,
              bond_rate |-> 400]]

Configs ==
    {ModelConfig(n, g, tax, loan, ploan, rates, target, initial) :
        n \in 0..MaxSteps, g \in SpendingPolicies, tax \in TaxPolicies,
        loan \in LoanPolicies, ploan \in PrivateLoanPolicies,
        rates \in RatePolicies, target \in TgaTargets, initial \in Initials}
    \cup {DefaultModelConfig(n) : n \in 0..MaxSteps}

---------------------------------------------------------------------------
(* MoneySystemModel: construction, run() and step() *)

NoTransaction == Transaction("none", <<>>)

NoCall == [op |-> "none", tx |-> NoTransaction, err |-> NoError]

NoMetrics == compute_metrics(EmptyDict, default_chart(EmptyDict))

\* what a caller can see when a call begins
Observed ==
    [sectors |-> sectors, transactions |-> transactions,
     stock_history |-> stock_history, flow_history |-> flow_history,
     metric_history |-> metric_history]

\* MoneySystemModel.__init__
Constructed(cfg) ==
    /\ config = cfg
    /\ build_default_ledger(resolve_initial(cfg)).err = NoError
    /\ sectors = build_default_ledger(resolve_initial(cfg)).sectors
    /\ transactions = <<>>
    /\ stock_history = <<>>
    /\ flow_history = <<>>
    /\ metric_history = <<>>
    /\ t = 0
    /\ balances = EmptyDict
    /\ flows = EmptyDict
    /\ txs = <<>>
    /\ equity_adjustments = None
    /\ stocks = EmptyDict
    /\ metrics = NoMetrics
    /\ err = NoError
    /\ entry = Observed
    /\ call = NoCall
    /\ ncalls = 0

Init ==
    /\ \E cfg \in Configs : Constructed(cfg)
    /\ pc = "run"

\* the exception leaves step() and run()
Raise(e) ==
    /\ pc' = "failed"
    /\ err' = e

\* a loop that goes on after a step has raised
run_loop_ignores_failure ==
    /\ pc \in {"run", "failed"}
    /\ t < config.steps

\* run(): "for step in range(self.config.steps)" has a next index; an
\* exception of step() has left the loop
run_loop_continues ==
    /\ pc = "run"
    /\ t < config.steps

\* run(): the loop takes the next index; step(): snapshot, flows, the
\* transaction list and its selection
RunStep ==
    /\ run_loop_continues
    /\ entry' = Observed
    /\ balances' = Ledger_snapshot(sectors)
    /\ flows' = step_flows(config, t, balances')
    /\ txs' = select_transactions(step_txs(flows', balances'))
    /\ pc' = "apply"
    /\ UNCHANGED <<config, sectors, transactions, stock_history, flow_history,
                   metric_history, t, equity_adjustments, stocks, metrics,
                   err, call, ncalls>>

\* step(): one round of "for tx in select_transactions(txs)"
StepApply ==
    /\ pc = "apply"
    /\ txs # <<>>
    /\ LET r == Ledger_apply([sectors |-> sectors, transactions |-> transactions],
                             Head(txs))
       IN  /\ sectors' = r.sectors
           /\ transactions' = r.transactions
           /\ IF r.err # NoError
              THEN Raise(r.err) /\ UNCHANGED txs
              ELSE txs' = Tail(txs) /\ UNCHANGED <<pc, err>>
    /\ UNCHANGED <<config, stock_history, flow_history, metric_history, t,
                   balances, flows, equity_adjustments, stocks, metrics,
                   entry, call, ncalls>>

\* the literal 1e-6 the financing stage compares the gap with
gap_tol == 1

\* step(): the financing stage
StepFinance ==
    /\ pc = "apply"
    /\ txs = <<>>
    /\ LET gap == tga_gap(config, sectors)
       IN  IF Abs(gap) > gap_tol
           THEN LET r == Ledger_apply([sectors |-> sectors,
                                       transactions |-> transactions],
                                      tx_bond_issue(gap))
                IN  /\ sectors' = r.sectors
                    /\ transactions' = r.transactions
                    /\ IF r.err # NoError
                       THEN Raise(r.err) /\ UNCHANGED flows
                       ELSE /\ flows' = flows @@ ("bond_issuance" :> gap)
                            /\ pc' = "equity"
                            /\ UNCHANGED err
           ELSE /\ flows' = flows @@ ("bond_issuance" :> 0)
                /\ pc' = "equity"
                /\ UNCHANGED <<sectors, transactions, err>>
    /\ UNCHANGED <<config, stock_history, flow_history, metric_history, t,
                   balances, txs, equity_adjustments, stocks, metrics,
                   entry, call, ncalls>>

\* step(): recompute_equity, the post-step snapshot and the metrics
StepRecomputeEquity ==
    /\ pc = "equity"
    /\ LET r == Ledger_recompute_equity(sectors)
       IN  /\ sectors' = r.sectors
           /\ IF r.err # NoError
              THEN Raise(r.err)
                   /\ UNCHANGED <<equity_adjustments, stocks, metrics>>
              ELSE /\ equity_adjustments' = r.returned
                   /\ stocks' = Ledger_snapshot(r.sectors)
                   /\ metrics' = compute_metrics(stocks', r.sectors)
                   /\ pc' = "record"
                   /\ UNCHANGED err
    /\ UNCHANGED <<config, transactions, stock_history, flow_history,
                   metric_history, t, balances, flows, txs, entry, call,
                   ncalls>>

\* step(): the loop over equity_adjustments.items(), the three appends and
\* the return to the loop of run()
StepRecord ==
    /\ pc = "record"
    /\ IF equity_adjustments = None
       THEN Raise(NoneHasNoItems)
            /\ UNCHANGED <<flows, stock_history, flow_history,
                           metric_history, t>>
       ELSE /\ flows' = with_equity_adjustments(flows, equity_adjustments)
            /\ stock_history' = Append(stock_history, stocks)
            /\ flow_history' = Append(flow_history, flows')
            /\ metric_history' = Append(metric_history, metrics)
            /\ t' = t + 1
            /\ pc' = "run"
            /\ UNCHANGED err
    /\ UNCHANGED <<config, sectors, transactions, balances, txs,
                   equity_adjustments, stocks, metrics, entry, call, ncalls>>

\* run(): the loop is exhausted, the three histories are returned
RunReturn ==
    /\ pc = "run"
    /\ t = config.steps
    /\ pc' = "returned"
    /\ UNCHANGED <<config, sectors, transactions, stock_history, flow_history,
                   metric_history, t, balances, flows, txs,
                   equity_adjustments, stocks, metrics, err, entry, call,
                   ncalls>>

Next ==
    \/ RunStep
    \/ StepApply
    \/ StepFinance
    \/ StepRecomputeEquity
    \/ StepRecord
    \/ RunReturn

Spec == Init /\ [][Next]_vars

---------------------------------------------------------------------------
(* A host that uses the Ledger of a constructed model directly *)

\* amounts the host passes to the catalogue constructors
HostAmounts == {-2, 0, 3}

\* the constructors step() uses
CatalogueOf(amount) ==
    {tx_government_spending(amount), tx_taxes(amount),
     tx_loan_creation(amount), tx_loan_repayment(amount),
     tx_private_loan_creation(amount), tx_private_loan_repayment(amount),
     tx_interest_on_loans(amount), tx_interest_on_deposits(amount),
     tx_interest_on_reserves(amount), tx_interest_on_bonds(amount),
     tx_bond_issue(amount)}

CatalogueTransactions == UNION {CatalogueOf(amount) : amount \in HostAmounts}

\* transactions the host writes itself
InjectedTransactions ==
    {Transaction("single", <<Posting("Private", "Deposits", 5)>>),
     Transaction("single_small", <<Posting("Private", "Deposits", 1)>>),
     Transaction("uneven",
        <<Posting("Private", "Deposits", 3), Posting("Banks", "Deposits", 1)>>),
     Transaction("to_equity",
        <<Posting("Private", "Deposits", 2), Posting("Private", "NetWorth", 2)>>),
     Transaction("twice",
        <<Posting("Banks", "Reserves", 2), Posting("CentralBank", "Reserves", 1),
          Posting("CentralBank", "Reserves", 1)>>),
     Transaction("unknown_account_last",
        <<Posting("Private", "Deposits", 3), Posting("Banks", "Deposits", 3),
          Posting("Private", "BankDebt", 0)>>),
     Transaction("unknown_account_uneven",
        <<Posting("Private", "Deposits", 5), Posting("Private", "Savings", 1)>>),
     Transaction("unknown_sector_first",
        <<Posting("Households", "Deposits", 2), Posting("Banks", "Deposits", 2),
          Posting("Private", "Deposits", 2)>>),
     Transaction("unknown_sector_last",
        <<Posting("Private", "Deposits", 2), Posting("Households", "Deposits", 2)>>)}

HostTransactions == CatalogueTransactions \cup InjectedTransactions

\* the default configuration's policy fields with the given initial balances
HostConfig(initial) ==
    ModelConfig(0, <<0, NoFn>>, <<0, NoFn>>, <<0, NoFn>>, <<0, NoFn>>,
                <<0, 0, 0, 0>>, 0, initial)

InitLedger ==
    /\ \E initial \in Initials : Constructed(HostConfig(initial))
    /\ pc = "host"

\* ledger.apply(tx)
HostApply ==
    /\ pc = "host"
    /\ ncalls < MaxCalls
    /\ \E tx \in HostTransactions :
         LET r == Ledger_apply([sectors |-> sectors,
                                transactions |-> transactions], tx)
         IN  /\ sectors' = r.sectors
             /\ transactions' = r.transactions
             /\ call' = [op |-> "apply", tx |-> tx, err |-> r.err]
    /\ entry' = Observed
    /\ ncalls' = ncalls + 1
    /\ UNCHANGED <<config, stock_history, flow_history, metric_history, pc, t,
                   balances, flows, txs, equity_adjustments, stocks, metrics,
                   err>>

\* ledger.recompute_equity()
HostRecomputeEquity ==
    /\ pc = "host"
    /\ ncalls < MaxCalls
    /\ LET r == Ledger_recompute_equity(sectors)
       IN  /\ sectors' = r.sectors
           /\ call' = [op |-> "recompute_equity", tx |-> NoTransaction,
                       err |-> r.err]
    /\ entry' = Observed
    /\ ncalls' = ncalls + 1
    /\ UNCHANGED <<config, transactions, stock_history, flow_history,
                   metric_history, pc, t, balances, flows, txs,
                   equity_adjustments, stocks, metrics, err>>

\* ledger.snapshot(); the host keeps the mapping it receives
HostSnapshot ==
    /\ pc = "host"
    /\ ncalls < MaxCalls
    /\ balances' = Ledger_snapshot(sectors)
    /\ call' = [op |-> "snapshot", tx |-> NoTransaction, err |-> NoError]
    /\ entry' = Observed
    /\ ncalls' = ncalls + 1
    /\ UNCHANGED <<config, sectors, transactions, stock_history, flow_history,
                   metric_history, pc, t, flows, txs, equity_adjustments,
                   stocks, metrics, err>>

NextLedger ==
    \/ HostApply
    \/ HostRecomputeEquity
    \/ HostSnapshot

SpecLedger == InitLedger /\ [][NextLedger]_vars

---------------------------------------------------------------------------
(* A host that builds a Ledger from sectors of its own *)

\* the accounts of the sector Fund, with an equity account or without
FundAccounts(cash, owned) ==
    IF owned
    THEN [Cash |-> Account("asset", cash),
          Units |-> Account("liability", 2),
          Surplus |-> Account("equity", 0)]
    ELSE [Cash |-> Account("asset", cash),
          Units |-> Account("liability", 2)]

\* Ledger(sectors): a sector with two equity accounts, one with one or
\* none and one with one; the equity balances are whatever the host wrote
HostCharts ==
    {[Firm |-> [Cash |-> Account("asset", cash),
                Debt |-> Account("liability", 2),
                Capital |-> Account("equity", capital),
                Retained |-> Account("equity", -2)],
      Fund |-> FundAccounts(fund, owned),
      Shop |-> [Till |-> Account("asset", 3),
                Stake |-> Account("equity", stake)]] :
        cash \in {0, 4}, capital \in {0, 6}, fund \in {0, 2},
        stake \in {0, 5}, owned \in BOOLEAN}

\* the amounts the host posts to one account
HostDeltas == {-4, 2}

InitChart ==
    /\ sectors \in HostCharts
    /\ config = HostConfig(EmptyDict)
    /\ transactions = <<>>
    /\ stock_history = <<>>
    /\ flow_history = <<>>
    /\ metric_history = <<>>
    /\ t = 0
    /\ balances = EmptyDict
    /\ flows = EmptyDict
    /\ txs = <<>>
    /\ equity_adjustments = None
    /\ stocks = EmptyDict
    /\ metrics = NoMetrics
    /\ err = NoError
    /\ entry = Observed
    /\ call = NoCall
    /\ ncalls = 0
    /\ pc = "host"

\* ledger.sectors[sector].apply(account, delta)
HostSectorApply ==
    /\ pc = "host"
    /\ ncalls < MaxCalls
    /\ \E s \in DOMAIN sectors : \E a \in DOMAIN sectors[s] :
       \E delta \in HostDeltas :
         LET r == SectorLedger_apply(sectors, s, a, delta)
         IN  /\ sectors' = r.sectors
             /\ call' = [op |-> "sector_apply",
                         tx |-> Transaction("posting",
                                            <<Posting(s, a, delta)>>),
                         err |-> r.err]
    /\ entry' = Observed
    /\ ncalls' = ncalls + 1
    /\ UNCHANGED <<config, transactions, stock_history, flow_history,
                   metric_history, pc, t, balances, flows, txs,
                   equity_adjustments, stocks, metrics, err>>

NextChart ==
    \/ HostSectorApply
    \/ HostRecomputeEquity

SpecChart == InitChart /\ [][NextChart]_vars

---------------------------------------------------------------------------
(* Properties of Ledger.apply, checked under SpecLedger *)

\* every posting of tx names a sector and an account of the ledger
AllPostingsKnown(tx, secs) ==
    \A i \in 1..Len(tx.postings) :
        /\ tx.postings[i].sector \in DOMAIN secs
        /\ tx.postings[i].account \in DOMAIN secs[tx.postings[i].sector]

\* sum of amount x category sign, asset +1, liability -1, equity -1, over
\* the postings from index i on
RECURSIVE SignedTotalFrom(_, _, _)
SignedTotalFrom(tx, secs, i) ==
    IF i > Len(tx.postings) THEN 0
    ELSE LET p == tx.postings[i]
             sign == IF secs[p.sector][p.account].category = "asset"
                     THEN 1 ELSE -1
         IN  p.amount * sign + SignedTotalFrom(tx, secs, i + 1)

LedgerUntouched ==
    /\ sectors = entry.sectors
    /\ transactions = entry.transactions

\* C1: an apply of a transaction whose postings all name existing accounts
\* and whose signed total exceeds tol in absolute value fails with the
\* unbalanced-transaction error and leaves every balance and the log as
\* they were.
C1_UnbalancedRejectedWhole ==
    ( /\ call.op = "apply"
      /\ AllPostingsKnown(call.tx, entry.sectors)
      /\ Abs(SignedTotalFrom(call.tx, entry.sectors, 1)) > tol )
    => /\ call.err = UnbalancedTransactionError
       /\ LedgerUntouched

\* an unbalanced two-posting transaction was offered to a ledger that had
\* already applied a transaction
C1_Witness ==
    /\ call.op = "apply"
    /\ call.tx.name = "uneven"
    /\ Len(entry.transactions) = 1
    /\ entry.sectors["Private"]["Deposits"].balance # 0
    /\ call.err = UnbalancedTransactionError

\* C2: an apply of a transaction with a posting whose sector or account is
\* absent from the ledger, wherever it stands in the list and whether or
\* not the rest balances, fails with the unknown-account error, whose kind
\* differs from the kind of the unbalanced-transaction error and of the
\* balance-sheet violation, and changes neither a balance nor the log.
C2_UnknownAccountRejectedWhole ==
    ( /\ call.op = "apply"
      /\ ~ AllPostingsKnown(call.tx, entry.sectors) )
    => /\ call.err = UnknownAccountError
       /\ call.err.class # UnbalancedTransactionError.class
       /\ call.err.class # BalanceSheetInvariantViolation.class
       /\ LedgerUntouched

\* the unknown account stood last, after two postings that balance
C2_Witness ==
    /\ call.op = "apply"
    /\ call.tx.name = "unknown_account_last"
    /\ call.err = UnknownAccountError
    /\ Len(entry.transactions) = 1

\* C3: every catalogue transaction, whatever the sign of its amount, has
\* signed total 0 under the categories of the ledger the engine builds, so
\* Ledger.apply accepts it.
C3_CatalogueBalancedAndAccepted ==
    ( /\ call.op = "apply"
      /\ call.tx \in CatalogueTransactions )
    => /\ Transaction_total(call.tx, entry.sectors)
              = [err |-> NoError, value |-> 0]
       /\ call.err = NoError

---------------------------------------------------------------------------
(* Properties of the stepper, checked under Spec *)

\* |assets_total - liabilities_total - equity_total| <= 1e-6
SectorBalanced(accounts) ==
    Abs(assets_total(accounts) - liabilities_total(accounts)
        - equity_total(accounts)) <= tol

\* a stocks record read as the four balance sheets of the chart
StocksBalanced(record) ==
    \A s \in DOMAIN ChartOfAccounts :
        Abs(SumOver([a \in DOMAIN ChartOfAccounts[s] |->
                        record[<<s, a>>]
                        * (IF ChartOfAccounts[s][a] = "asset" THEN 1 ELSE -1)],
                    DOMAIN ChartOfAccounts[s])) <= tol

\* the model has been constructed and no step has begun
JustConstructed == pc = "run" /\ t = 0

\* the step is past its equity recomputation
EquityRecomputed ==
    \/ pc = "record"
    \/ pc = "failed" /\ err = NoneHasNoItems

\* C4: after construction and after the equity recomputation of a step
\* every sector has |assets - liabilities - equity| <= 1e-6, and so has the
\* post-step stocks record and every recorded stocks record.
C4_SectorsBalanced ==
    /\ (JustConstructed \/ EquityRecomputed)
          => \A s \in DOMAIN sectors : SectorBalanced(sectors[s])
    /\ pc = "record" => StocksBalanced(stocks)
    /\ \A i \in 1..Len(stock_history) : StocksBalanced(stock_history[i])

\* a step that applied transactions has recomputed a changed equity
C4_Witness ==
    /\ pc = "record"
    /\ Len(transactions) > 1
    /\ sectors["Private"]["NetWorth"].balance
          # entry.sectors["Private"]["NetWorth"].balance
    /\ sectors["Government"]["GovEquity"].balance
          # entry.sectors["Government"]["GovEquity"].balance

\* sum over the sectors of assets_total - liabilities_total of the
\* balances the model is constructed with
InitialNetSum(cfg) ==
    LET chart == default_chart(resolve_initial(cfg))
    IN  SumOver([s \in DOMAIN chart |-> net_position(chart[s])], DOMAIN chart)

\* the step has computed its metrics
MetricsComputed == EquityRecomputed

\* C5 as stated: for every configuration the model accepts, default or
\* supplied initial balances, Sector_Balance_Check is 0 within tolerance in
\* every period.
C5_CheckIsZeroForEveryConfig ==
    /\ MetricsComputed => Abs(metrics.Sector_Balance_Check) <= tol
    /\ \A i \in 1..Len(metric_history) :
          Abs(metric_history[i].Sector_Balance_Check) <= tol

\* C5 amended: Sector_Balance_Check = NonGov_NFA + Public_NFP is 0 within
\* tolerance in every period when the initial balances (the defaults, or
\* those the configuration supplies) have sector net positions that sum
\* to 0.
C5_CheckIsZeroForBalancedInitial ==
    InitialNetSum(config) = 0
    => /\ MetricsComputed
             => /\ metrics.Sector_Balance_Check
                      = metrics.NonGov_NFA + metrics.Public_NFP
                /\ Abs(metrics.Sector_Balance_Check) <= tol
       /\ \A i \in 1..Len(metric_history) :
             Abs(metric_history[i].Sector_Balance_Check) <= tol

\* supplied initial balances that net to 0, a step with spending, taxes
\* and a bond issue, and sectors with net positions other than 0
C5_Witness ==
    /\ MetricsComputed
    /\ config.initial = ConsistentInitial
    /\ flows["gov_spending"] # 0
    /\ flows["taxes"] # 0
    /\ flows["bond_issuance"] # 0
    /\ metrics.NonGov_NFA # 0
    /\ metrics.Sector_Balance_Check = 0


\* Government:TGA after the period's other transactions, from the pre-step
\* balance and the postings of spending, bond interest and taxes
TgaBeforeFinancing ==
    entry.sectors["Government"]["TGA"].balance
    - flows["gov_spending"] - flows["interest_on_bonds"] + flows["taxes"]

\* the transactions of the period other than the bond issue
SelectedOfPeriod == select_transactions(step_txs(flows, balances))

\* the financing stage applied a transaction
BondIssueApplied ==
    Len(transactions) = Len(entry.transactions) + Len(SelectedOfPeriod) + 1

\* C6: after the financing stage Government:TGA is within 1e-6 of
\* tga_target, whatever the pre-step balance, the flows and the sign of the
\* gap; bond_issue(tga_gap) is applied exactly when |tga_gap| > 1e-6, and
\* the flow bond_issuance is the applied amount, 0 when none is applied;
\* the post-step stocks show the TGA on target as well.
C6_TgaOnTarget ==
    /\ pc = "equity"
          => LET gap == config.tga_target - TgaBeforeFinancing
             IN  /\ Abs(sectors["Government"]["TGA"].balance
                        - config.tga_target) <= tol
                 /\ BondIssueApplied <=> Abs(gap) > tol
                 /\ BondIssueApplied
                       => transactions[Len(transactions)] = tx_bond_issue(gap)
                 /\ ~ BondIssueApplied
                       => Len(transactions)
                            = Len(entry.transactions) + Len(SelectedOfPeriod)
                 /\ flows["bond_issuance"] = IF BondIssueApplied THEN gap ELSE 0
    /\ pc = "record"
          => Abs(stocks[<<"Government", "TGA">>] - config.tga_target) <= tol

\* a TGA that started off target and ended the flows above it: bonds are
\* retired by a negative issue
C6_Witness ==
    /\ pc = "equity"
    /\ entry.sectors["Government"]["TGA"].balance # config.tga_target
    /\ flows["taxes"] > 0
    /\ flows["bond_issuance"] < 0
    /\ transactions[Len(transactions)].name = "bond_issue"

\* C7 as stated: with the default chart and initial balances and no
\* override, run() for steps = N >= 1 performs its N steps without error
\* and returns N records in each history.
C7_RunCompletes ==
    ( /\ config.initial = EmptyDict
      /\ config.gov_spending_fn.isNone
      /\ config.tax_fn.isNone
      /\ config.loan_growth_fn.isNone
      /\ config.private_loan_growth_fn.isNone
      /\ config.steps >= 1 )
    => /\ pc # "failed"
       /\ pc = "returned"
             => /\ Len(stock_history) = config.steps
                /\ Len(flow_history) = config.steps
                /\ Len(metric_history) = config.steps

\* C8 as stated: a failed step leaves every balance, the log and the
\* histories at their pre-step values; a completed step has appended one
\* record to each history.
C8_StepAllOrNothing ==
    /\ pc = "failed" => Observed = entry
    /\ pc = "run"
          => /\ Len(stock_history) = t
             /\ Len(flow_history) = t
             /\ Len(metric_history) = t

HistoriesUntouched ==
    /\ stock_history = entry.stock_history
    /\ flow_history = entry.flow_history
    /\ metric_history = entry.metric_history

\* C9: the three histories have equal length at every moment; when a step
\* fails they hold the records of the completed steps and no more; a
\* recorded entry is never altered; after a failed step run() performs no
\* step.
C9_HistoryKeptAndRunStops ==
    /\ [](/\ Len(stock_history) = Len(flow_history)
          /\ Len(flow_history) = Len(metric_history)
          /\ pc = "failed" => HistoriesUntouched /\ Len(stock_history) = t)
    /\ [][/\ \A i \in 1..Len(stock_history) :
                /\ i <= Len(stock_history')
                /\ stock_history'[i] = stock_history[i]
                /\ flow_history'[i] = flow_history[i]
                /\ metric_history'[i] = metric_history[i]
          /\ pc = "failed" => UNCHANGED vars]_vars

\* a step failed after it had changed the ledger, with periods left to run
C9_Witness ==
    /\ pc = "failed"
    /\ t + 1 < config.steps
    /\ transactions # entry.transactions

\* C10 as stated: the taxes amount of a period is >= 0 for every
\* configuration, a tax override function included.
C10_TaxesNeverNegative ==
    "taxes" \in DOMAIN flows => flows["taxes"] >= 0

\* the tax transaction the period built, if any
TaxTransactionOfPeriod == step_txs(flows, balances)[8]

\* C10 amended: without a tax override function the taxes amount of a
\* period is max(0, tax_rate x tax base) >= 0; with a tax override function
\* it is the value the function returns, which may be negative; in both
\* cases it is the amount recorded as the taxes flow and passed to the
\* taxes transaction.
C10_TaxesNonNegativeWithoutOverride ==
    "taxes" \in DOMAIN flows
    => /\ config.tax_fn.isNone => flows["taxes"] >= 0
       /\ ~ config.tax_fn.isNone => flows["taxes"] = config.tax_fn.value
       /\ TaxTransactionOfPeriod = tx_taxes(flows["taxes"])

\* the default rule met a negative tax_rate x tax base and floored it
C10_Witness ==
    /\ pc = "apply"
    /\ config.tax_fn.isNone
    /\ config.tax_rate
         * (flows["gov_spending"] + flows["interest_on_deposits"]
            + flows["interest_on_bonds"] - flows["interest_on_loans"]) < 0
    /\ flows["taxes"] = 0

---------------------------------------------------------------------------
(* Claims C11 to C20 *)

\* the amount of the loan adjustment step() hands to its constructor
LoanAdjustment ==
    IF flows["loan_change"] >= 0 THEN flows["loan_change"]
    ELSE Min(0 - flows["loan_change"],
             entry.sectors["Private"]["Deposits"].balance)

\* the amount of the private-loan adjustment step() hands to its constructor
PrivateLoanAdjustment ==
    IF flows["private_loan_change"] >= 0 THEN flows["private_loan_change"]
    ELSE Min(0 - flows["private_loan_change"],
             get_balance(balances, "Private", "PrivateLoansAsset"))

\* the eight amounts of the period's transaction list, in the order of step()
ListedAmounts ==
    <<LoanAdjustment, PrivateLoanAdjustment,
      flows["interest_on_loans"], flows["interest_on_deposits"],
      flows["interest_on_reserves"], flows["interest_on_bonds"],
      flows["gov_spending"], flows["taxes"]>>

\* the nine amounts of a period, the bond issuance last
AppliedAmounts ==
    Append(ListedAmounts, flows["bond_issuance"])

\* the period's financing stage is over
PastFinancing ==
    \/ pc \in {"equity", "record"}
    \/ pc = "failed" /\ err = NoneHasNoItems

\* the log entries the period has added
AddedToLog ==
    SubSeq(transactions, Len(entry.transactions) + 1, Len(transactions))

\* C11: every catalogue constructor called with amount 0 returns a
\* transaction without postings, step() hands no such transaction to
\* Ledger.apply: every log entry has at least one posting, and once the
\* financing stage is over the period has added as many log entries as it
\* has non-zero amounts among the clamped loan adjustment, the clamped
\* private-loan adjustment, the four interest flows, spending, taxes and
\* the bond issuance.
C11_NoEmptyTransactionLogged ==
    /\ \A tx \in CatalogueOf(0) : tx.postings = <<>>
    /\ \A i \in 1..Len(transactions) : transactions[i].postings # <<>>
    /\ PastFinancing =>
         Len(AddedToLog)
           = Cardinality({i \in 1..Len(AppliedAmounts) : AppliedAmounts[i] # 0})

\* a period with a private-loan repayment clamped to 0, an interest flow of
\* 0, spending and a bond issue
C11_Witness ==
    /\ pc = "equity"
    /\ flows["private_loan_change"] < 0
    /\ PrivateLoanAdjustment = 0
    /\ flows["interest_on_reserves"] = 0
    /\ flows["gov_spending"] # 0
    /\ flows["bond_issuance"] # 0
    /\ Len(AddedToLog) = 2

\* the place of a transaction in the order of step(), by its name
TransactionRank(name) ==
    CASE name \in {"loan_creation", "loan_repayment"} -> 1
      [] name \in {"private_loan_creation", "private_loan_repayment"} -> 2
      [] name = "interest_on_loans" -> 3
      [] name = "interest_on_deposits" -> 4
      [] name = "interest_on_reserves" -> 5
      [] name = "interest_on_bonds" -> 6
      [] name = "government_spending" -> 7
      [] name = "taxes" -> 8
      [] name = "bond_issue" -> 9
      [] OTHER -> 0

\* the transactions of a list are in strictly increasing rank
InStepOrder(list) ==
    /\ \A i \in 1..Len(list) : TransactionRank(list[i].name) >= 1
    /\ \A i, j \in 1..Len(list) :
         i < j => TransactionRank(list[i].name) < TransactionRank(list[j].name)

\* the ranks of the transactions of a list
RanksOf(list) == {TransactionRank(list[i].name) : i \in 1..Len(list)}

\* creation for a change >= 0, repayment for a change < 0
AdjustmentNamedBySign(list) ==
    \A i \in 1..Len(list) :
        /\ list[i].name = "loan_creation" => flows["loan_change"] >= 0
        /\ list[i].name = "loan_repayment" => flows["loan_change"] < 0
        /\ list[i].name = "private_loan_creation"
             => flows["private_loan_change"] >= 0
        /\ list[i].name = "private_loan_repayment"
             => flows["private_loan_change"] < 0

\* the equity balances are those the period started with
EquityAsAtEntry ==
    \A s \in DOMAIN sectors : \A a \in DOMAIN sectors[s] :
        sectors[s][a].category = "equity"
          => sectors[s][a].balance = entry.sectors[s][a].balance

\* C12: within a period the transactions are applied and logged in the
\* order loan adjustment (creation for loan_change >= 0, repayment
\* otherwise), private-loan adjustment, interest on loans, on deposits, on
\* reserves, on bonds, government spending, taxes and last the bond issue;
\* the zero-amount ones are left out without changing the order of the
\* others, and equity is recomputed only after all of them.
C12_AppliedInStepOrder ==
    /\ pc \in {"apply", "equity", "record", "failed"} =>
         /\ InStepOrder(AddedToLog)
         /\ AdjustmentNamedBySign(AddedToLog \o txs)
    /\ pc = "apply" =>
         /\ InStepOrder(AddedToLog \o txs)
         /\ RanksOf(AddedToLog \o txs)
              = {i \in 1..Len(ListedAmounts) : ListedAmounts[i] # 0}
         /\ EquityAsAtEntry
    /\ pc = "equity" =>
         /\ txs = <<>>
         /\ RanksOf(AddedToLog)
              = {i \in 1..Len(AppliedAmounts) : AppliedAmounts[i] # 0}
         /\ EquityAsAtEntry

\* a period that applied a loan repayment, the four interest flows,
\* spending, taxes and a bond issue, and then recomputed equity
C12_Witness ==
    /\ pc = "record"
    /\ Len(AddedToLog) = 8
    /\ AddedToLog[1].name = "loan_repayment"
    /\ AddedToLog[7].name = "taxes"
    /\ AddedToLog[8].name = "bond_issue"
    /\ ~ EquityAsAtEntry

\* the literal amounts tx posts to one account, from index i on
RECURSIVE PostedTo(_, _, _, _)
PostedTo(tx, sector, account, i) ==
    IF i > Len(tx.postings) THEN 0
    ELSE (IF tx.postings[i].sector = sector /\ tx.postings[i].account = account
          THEN tx.postings[i].amount ELSE 0)
         + PostedTo(tx, sector, account, i + 1)

\* the host's last call was an apply that returned
ApplySucceeded ==
    /\ call.op = "apply"
    /\ call.err = NoError

\* C13: when Ledger.apply(tx) succeeds, every account's balance has grown by
\* the sum of the literal amounts of tx's postings to it, not sign-adjusted
\* and several postings to one account adding up, every other account is
\* unchanged and tx is the last element of the log; the log only grows at
\* its end, by one element per successful apply and by none otherwise.
C13_ApplyPostsLiteralAmounts ==
    /\ [](ApplySucceeded =>
            /\ DOMAIN sectors = DOMAIN entry.sectors
            /\ \A s \in DOMAIN sectors :
                 /\ DOMAIN sectors[s] = DOMAIN entry.sectors[s]
                 /\ \A a \in DOMAIN sectors[s] :
                      /\ sectors[s][a].category = entry.sectors[s][a].category
                      /\ sectors[s][a].balance
                           = entry.sectors[s][a].balance
                             + PostedTo(call.tx, s, a, 1)
            /\ transactions = Append(entry.transactions, call.tx))
    /\ [][ /\ Len(transactions') >= Len(transactions)
           /\ SubSeq(transactions', 1, Len(transactions)) = transactions
           /\ Len(transactions') - Len(transactions)
                = IF call'.op = "apply" /\ call'.err = NoError THEN 1 ELSE 0
         ]_vars

\* a successful apply with two postings to one liability account
C13_Witness ==
    /\ ApplySucceeded
    /\ call.tx.name = "twice"
    /\ PostedTo(call.tx, "CentralBank", "Reserves", 1) = 2
    /\ sectors["CentralBank"]["Reserves"].balance
         = entry.sectors["CentralBank"]["Reserves"].balance + 2
    /\ Len(transactions) = 2

\* the equity accounts of a sector
EquityAccounts(accounts) ==
    {a \in DOMAIN accounts : accounts[a].category = "equity"}

\* the host's last call was a recompute_equity that returned
RecomputeSucceeded ==
    /\ call.op = "recompute_equity"
    /\ call.err = NoError

\* C14: after Ledger.recompute_equity succeeds, in every sector with
\* n >= 1 equity accounts each equity account holds
\* (assets_total - liabilities_total) / n, whatever it held before, no
\* asset or liability balance has changed and a sector without equity
\* accounts has no balance changed; a second call right after the first
\* changes nothing.
C14_EquityIsEvenShareOfResidual ==
    RecomputeSucceeded =>
      /\ DOMAIN sectors = DOMAIN entry.sectors
      /\ \A s \in DOMAIN sectors :
           LET n == Cardinality(EquityAccounts(sectors[s]))
           IN  /\ DOMAIN sectors[s] = DOMAIN entry.sectors[s]
               /\ \A a \in DOMAIN sectors[s] :
                    IF a \in EquityAccounts(entry.sectors[s])
                    THEN /\ sectors[s][a].category = "equity"
                         /\ sectors[s][a].balance * n
                              = assets_total(entry.sectors[s])
                                - liabilities_total(entry.sectors[s])
                    ELSE sectors[s][a] = entry.sectors[s][a]
      /\ Ledger_recompute_equity(sectors).err = NoError
      /\ Ledger_recompute_equity(sectors).sectors = sectors

\* a recompute that replaced unequal shares of a sector with two equity
\* accounts and left a sector without equity accounts alone
C14_Witness ==
    /\ RecomputeSucceeded
    /\ entry.sectors["Firm"]["Capital"].balance = 6
    /\ entry.sectors["Firm"]["Retained"].balance = -2
    /\ entry.sectors["Firm"]["Cash"].balance = 6
    /\ sectors["Firm"]["Capital"].balance = 2
    /\ sectors["Firm"]["Retained"].balance = 2
    /\ Cardinality(EquityAccounts(sectors["Fund"])) = 0
    /\ sectors["Shop"]["Stake"].balance = 3

\* C15: in every period, once equity is recomputed, the step has for each
\* sector the change of that sector's equity made by the recomputation,
\* enters it in the flows record as equity_adjustment_<sector>, and goes on
\* to record stocks, flows and metrics.
C15_EquityAdjustmentsRecorded ==
    /\ pc = "record" =>
         /\ equity_adjustments # None
         /\ DOMAIN equity_adjustments = DOMAIN sectors
         /\ \A s \in DOMAIN sectors :
              equity_adjustments[s]
                = equity_total(sectors[s]) - equity_total(entry.sectors[s])
    /\ err # NoneHasNoItems
    /\ \A i \in 1..Len(flow_history) : \A s \in DOMAIN sectors :
         equity_adjustment_key(s) \in DOMAIN flow_history[i]

\* the private-loan change of the period under way is P
PrivateLoanChangeIs(P) ==
    /\ "private_loan_change" \in DOMAIN flows
    /\ flows["private_loan_change"] = P

\* C16: when the private-loan change P of a period is positive the step
\* applies private_loan_creation(P), which raises Private:PrivateLoansAsset
\* and Private:PrivateLoansLiability by P each, and the step continues;
\* when P is negative the step applies private_loan_repayment of
\* min(-P, pre-step Private:PrivateLoansAsset).
C16_PrivateLoanAdjustmentApplied ==
    \A P \in {-2, 2} :
        PrivateLoanChangeIs(P) =>
          /\ err # UnknownAccountError
          /\ (PastFinancing /\ P > 0) =>
               /\ \E i \in 1..Len(AddedToLog) :
                    AddedToLog[i] = tx_private_loan_creation(P)
               /\ \A a \in {"PrivateLoansAsset", "PrivateLoansLiability"} :
                    /\ a \in DOMAIN sectors["Private"]
                    /\ sectors["Private"][a].balance
                         = entry.sectors["Private"][a].balance + P
          /\ (PastFinancing /\ P < 0 /\ PrivateLoanAdjustment # 0) =>
               \E i \in 1..Len(AddedToLog) :
                   AddedToLog[i]
                     = tx_private_loan_repayment(PrivateLoanAdjustment)

\* spending, the tax rate, both loan growth rates, the four interest rates
\* and the TGA target are 0 and no override is set
AllPoliciesZero(cfg) ==
    /\ cfg.gov_spending = 0 /\ cfg.gov_spending_fn.isNone
    /\ cfg.tax_rate = 0 /\ cfg.tax_fn.isNone
    /\ cfg.loan_growth = 0 /\ cfg.loan_growth_fn.isNone
    /\ cfg.private_loan_growth = 0 /\ cfg.private_loan_growth_fn.isNone
    /\ cfg.deposit_rate = 0 /\ cfg.loan_rate = 0
    /\ cfg.reserve_rate = 0 /\ cfg.bond_rate = 0
    /\ cfg.tga_target = 0

\* the ledger is as the constructor left it
LedgerAsConstructed ==
    /\ sectors = build_default_ledger(resolve_initial(config)).sectors
    /\ transactions = <<>>

\* C17: with all policies 0 and no override, run() for N steps leaves every
\* stock at its value after construction at every step, records every flow
\* as 0 and adds no transaction to the log.
C17_ZeroPoliciesChangeNothing ==
    AllPoliciesZero(config) =>
      /\ LedgerAsConstructed
      /\ \A k \in DOMAIN flows : flows[k] = 0
      /\ pc # "failed"
      /\ pc = "returned" =>
           /\ Len(stock_history) = config.steps
           /\ Len(flow_history) = config.steps
           /\ \A i \in 1..Len(stock_history) :
                stock_history[i] = Ledger_snapshot(sectors)
           /\ \A i \in 1..Len(flow_history) :
                \A k \in DOMAIN flow_history[i] : flow_history[i][k] = 0

\* the run uses the default configuration and the default initial balances
DefaultRun == config = DefaultModelConfig(config.steps)

\* Money_M1 of the pre-step snapshot
MoneyBefore ==
    get_balance(balances, "Private", "Deposits")
    + get_balance(balances, "Private", "Currency")

\* C18 as stated: with the default initial balances and configuration the
\* Money_M1 of step 0 exceeds its pre-step value by gov_spending - taxes +
\* loan_change of that step, and Sector_Balance_Check is 0 within
\* tolerance.
C18_MoneyGrowsBySpendingTaxesLoans ==
    (DefaultRun /\ t = 0 /\ MetricsComputed) =>
      /\ metrics.Money_M1 - MoneyBefore
           = flows["gov_spending"] - flows["taxes"] + flows["loan_change"]
      /\ Abs(metrics.Sector_Balance_Check) <= tol

\* C18 amended: with the default initial balances and configuration the
\* Money_M1 that step 0 computes exceeds its pre-step value by loan_change
\* - interest_on_loans + interest_on_deposits + interest_on_bonds
\* + gov_spending - taxes - bond_issuance of that step, and
\* Sector_Balance_Check is 0 within tolerance.
C18_MoneyGrowsByDepositFlows ==
    (DefaultRun /\ t = 0 /\ MetricsComputed) =>
      /\ metrics.Money_M1 - MoneyBefore
           = flows["loan_change"] - flows["interest_on_loans"]
             + flows["interest_on_deposits"] + flows["interest_on_bonds"]
             + flows["gov_spending"] - flows["taxes"]
             - flows["bond_issuance"]
      /\ Abs(metrics.Sector_Balance_Check) <= tol

\* step 0 of the default run: spending 100, taxes about 19.95, new loans 1,
\* a bond issue of about 80.05, and Money_M1 up from 90 by about 0.74
C18_Witness ==
    /\ DefaultRun /\ t = 0 /\ pc = "record"
    /\ MoneyBefore = 90000000
    /\ flows["gov_spending"] = 100000000
    /\ flows["loan_change"] = 1000000
    /\ flows["taxes"] > 19900000 /\ flows["taxes"] < 20000000
    /\ flows["bond_issuance"] > 80000000
    /\ metrics.Money_M1 > 90700000 /\ metrics.Money_M1 < 90800000

\* the host's last call was a snapshot
SnapshotTaken == call.op = "snapshot"

\* C19: Ledger.snapshot() returns a mapping with exactly one key
\* 'sector:account' for each account of each sector, valued at the
\* account's current balance; it changes no balance and not the log; two
\* calls with no apply and no recompute_equity between them return equal
\* mappings.
C19_SnapshotReadsEveryBalance ==
    /\ [](SnapshotTaken =>
            /\ \A k \in DOMAIN balances :
                 /\ k[1] \in DOMAIN sectors
                 /\ k[2] \in DOMAIN sectors[k[1]]
            /\ \A s \in DOMAIN sectors : \A a \in DOMAIN sectors[s] :
                 /\ <<s, a>> \in DOMAIN balances
                 /\ balances[<<s, a>>] = sectors[s][a].balance
            /\ Cardinality({snapshot_key(k[1], k[2]) : k \in DOMAIN balances})
                 = Cardinality(DOMAIN balances)
            /\ LedgerUntouched)
    /\ [][(SnapshotTaken /\ call'.op = "snapshot" /\ ncalls' = ncalls + 1)
            => balances' = balances]_vars

\* a snapshot of a ledger after a transaction was applied to it, with
\* accounts at 0 among its seventeen
C19_Witness ==
    /\ SnapshotTaken
    /\ ncalls = 2
    /\ entry.sectors = sectors
    /\ balances[<<"Private", "Deposits">>] = 8
    /\ balances[<<"Private", "Currency">>] = 0
    /\ Cardinality(DOMAIN balances) = 17

\* the flows of the period under way are computed
FlowsComputed == pc \in {"apply", "equity", "record", "failed"}

\* a balance as it was when the period began
PreStep(sector, account) == entry.sectors[sector][account].balance

\* the configured rate of a field times an amount
Rated(field, amount) == (config[field] * amount) \div config.per[field]

\* C20: every flow amount of a period derives from the pre-step snapshot
\* and the configuration only: each interest flow is its rate times the
\* pre-step balance of Private:Loans, Private:Deposits, Banks:Reserves and
\* Private:GovBonds, the default loan_change is loan_growth times the
\* pre-step Private:Loans, the default tax base is gov_spending +
\* interest_on_deposits + interest_on_bonds - interest_on_loans; the loan
\* adjustment applied earlier in the period alters none of them, and the
\* only balance read mid-period is Government:TGA, for the financing gap.
C20_FlowsFromPreStepSnapshot ==
    /\ FlowsComputed =>
         /\ flows["interest_on_loans"]
              = Rated("loan_rate", PreStep("Private", "Loans"))
         /\ flows["interest_on_deposits"]
              = Rated("deposit_rate", PreStep("Private", "Deposits"))
         /\ flows["interest_on_reserves"]
              = Rated("reserve_rate", PreStep("Banks", "Reserves"))
         /\ flows["interest_on_bonds"]
              = Rated("bond_rate", PreStep("Private", "GovBonds"))
         /\ config.loan_growth_fn.isNone =>
              flows["loan_change"]
                = Rated("loan_growth", PreStep("Private", "Loans"))
         /\ config.gov_spending_fn.isNone =>
              flows["gov_spending"] = config.gov_spending
         /\ config.tax_fn.isNone =>
              flows["taxes"]
                = Max(0, Rated("tax_rate",
                               flows["gov_spending"]
                               + flows["interest_on_deposits"]
                               + flows["interest_on_bonds"]
                               - flows["interest_on_loans"]))
    /\ PastFinancing =>
         flows["bond_issuance"]
           = IF Abs(config.tga_target - TgaBeforeFinancing) > gap_tol
             THEN config.tga_target - TgaBeforeFinancing
             ELSE 0

\* a period past its financing stage whose loan adjustment has changed
\* Private:Loans and Private:Deposits, with loan interest and taxes by the
\* default rules
C20_Witness ==
    /\ pc = "equity"
    /\ config.loan_growth_fn.isNone /\ config.tax_fn.isNone
    /\ flows["loan_change"] # 0
    /\ flows["interest_on_loans"] # 0
    /\ flows["interest_on_deposits"] # 0
    /\ flows["taxes"] > 0
    /\ flows["bond_issuance"] # 0
    /\ sectors["Private"]["Loans"].balance
         = PreStep("Private", "Loans") + flows["loan_change"]
    /\ sectors["Private"]["Deposits"].balance # PreStep("Private", "Deposits")

---------------------------------------------------------------------------
(* Claims C21 to C25 *)

\* C21: when loan_change < 0 the loan_repayment applied is
\* min(-loan_change, pre-step Private:Deposits) and lies in the range
\* 0 .. -loan_change: a repayment period applies no negative repayment,
\* never increases Private:Loans and Banks:Loans, and repays no more than
\* the deposits available before the step.
C21_RepaymentWithinRange ==
    (FlowsComputed /\ flows["loan_change"] < 0) =>
      /\ LoanAdjustment
           = Min(0 - flows["loan_change"], PreStep("Private", "Deposits"))
      /\ LoanAdjustment >= 0
      /\ LoanAdjustment <= 0 - flows["loan_change"]
      /\ \A i \in 1..Len(AddedToLog) :
           AddedToLog[i].name = "loan_repayment"
             => AddedToLog[i] = tx_loan_repayment(LoanAdjustment)
      /\ sectors["Private"]["Loans"].balance <= PreStep("Private", "Loans")
      /\ sectors["Banks"]["Loans"].balance <= PreStep("Banks", "Loans")

\* C22: the flows of a period account for its stock changes: Private:Loans
\* after the period less Private:Loans before it is the flow loan_change,
\* also when loan_change is negative and the repayment clamp binds, and the
\* change of Private:Deposits is loan_change - interest_on_loans
\* + interest_on_deposits + interest_on_bonds + gov_spending - taxes
\* - bond_issuance.
C22_FlowsAccountForStocks ==
    PastFinancing =>
      /\ sectors["Private"]["Loans"].balance - PreStep("Private", "Loans")
           = flows["loan_change"]
      /\ sectors["Private"]["Deposits"].balance
           - PreStep("Private", "Deposits")
           = flows["loan_change"] - flows["interest_on_loans"]
             + flows["interest_on_deposits"] + flows["interest_on_bonds"]
             + flows["gov_spending"] - flows["taxes"]
             - flows["bond_issuance"]

\* the balance of an account of the ledger
Balance(sector, account) == sectors[sector][account].balance

\* C23: starting from the default initial balances, in every ledger state,
\* mid-period and after a failed period included, each financial claim
\* stands at the same amount on both sides: Private:Deposits =
\* Banks:Deposits, Private:Loans = Banks:Loans, Banks:Reserves =
\* CentralBank:Reserves, Government:TGA = CentralBank:TGA and
\* Government:GovBonds = Private:GovBonds + CentralBank:GovBonds.
C23_ClaimsMirrored ==
    config.initial = EmptyDict =>
      /\ Balance("Private", "Deposits") = Balance("Banks", "Deposits")
      /\ Balance("Private", "Loans") = Balance("Banks", "Loans")
      /\ Balance("Banks", "Reserves") = Balance("CentralBank", "Reserves")
      /\ Balance("Government", "TGA") = Balance("CentralBank", "TGA")
      /\ Balance("Government", "GovBonds")
           = Balance("Private", "GovBonds") + Balance("CentralBank", "GovBonds")

\* a period from the default initial balances that stands between its
\* taxes and the financing stage, with deposits, reserves and the TGA moved
C23_Witness ==
    /\ config.initial = EmptyDict
    /\ pc = "apply" /\ txs = <<>>
    /\ Len(AddedToLog) >= 4
    /\ Balance("Private", "Deposits") # PreStep("Private", "Deposits")
    /\ Balance("Banks", "Reserves") # 0
    /\ Balance("Government", "TGA") # 0

\* no posting of the transaction names an equity account
PostsNoEquity(tx) ==
    \A i \in 1..Len(tx.postings) :
        LET p == tx.postings[i]
        IN  (p.sector \in DOMAIN sectors /\ p.account \in DOMAIN sectors[p.sector])
              => sectors[p.sector][p.account].category # "equity"

\* what the transaction appended by this step, if any, posts to an account
PostedByStep(sector, account) ==
    IF Len(transactions') > Len(transactions)
    THEN PostedTo(transactions'[Len(transactions')], sector, account, 1)
    ELSE 0

\* C24: no transaction that step() applies posts to an equity account; over
\* any sequence of periods the equity accounts NetWorth, BankEquity,
\* GovEquity and CBEq change inside recompute_equity only, and the asset
\* and liability accounts change only by the postings of the transactions
\* applied.
C24_EquityOnlyByRecomputation ==
    /\ [](\A i \in 1..Len(transactions) : PostsNoEquity(transactions[i]))
    /\ [][\A s \in DOMAIN sectors : \A a \in DOMAIN sectors[s] :
            IF sectors[s][a].category = "equity"
            THEN pc # "equity" => sectors'[s][a] = sectors[s][a]
            ELSE /\ pc = "equity" => sectors'[s][a] = sectors[s][a]
                 /\ sectors'[s][a].balance - sectors[s][a].balance
                      = PostedByStep(s, a)
         ]_vars

\* a period that applied spending, interest on deposits and a bond issue,
\* after which recompute_equity moved three sectors' equity
C24_Witness ==
    /\ pc = "record"
    /\ \E i \in 1..Len(AddedToLog) : AddedToLog[i].name = "government_spending"
    /\ \E i \in 1..Len(AddedToLog) : AddedToLog[i].name = "interest_on_deposits"
    /\ \E i \in 1..Len(AddedToLog) : AddedToLog[i].name = "bond_issue"
    /\ Balance("Private", "NetWorth") # PreStep("Private", "NetWorth")
    /\ Balance("Banks", "BankEquity") # PreStep("Banks", "BankEquity")
    /\ Balance("Government", "GovEquity") # PreStep("Government", "GovEquity")

\* the host's last call was a recompute_equity
RecomputeCalled == call.op = "recompute_equity"

\* the places in the dict order of the sectors without equity accounts
\* whose assets and liabilities differ by more than tol
UnbalancedWithoutEquity(secs) ==
    {i \in 1..Len(HostChartOrder) :
        /\ EquityAccounts(secs[HostChartOrder[i]]) = {}
        /\ Abs(assets_total(secs[HostChartOrder[i]])
               - liabilities_total(secs[HostChartOrder[i]])) > tol}

===========================================================================
